---------------------------- MODULE Spec2Model ----------------------------
(***************************************************************************)
(* Model of the counter-computation engine of dota-matchups-CLI:           *)
(*   src/counter_parsing.py  CounterPrinter, CounterParser, ODAPIParser,   *)
(*                           DBSCRAPEParser, ODSCRAPEParser                *)
(*   src/dota_constants.py   HeroTranslator                                *)
(*   src/modes.py            Mode                                          *)
(*                                                                         *)
(* Representation.                                                         *)
(*  - A Python str is a sequence of one-character strings, so that         *)
(*    str.lower(), slicing and float() are computed, not assumed.          *)
(*  - A Python float is an IEEE-754 binary64 value, kept as sign, 53-bit   *)
(*    mantissa and exponent; float(), int / int and float / 100 round to   *)
(*    the nearest such value, ties to even, overflow to an infinity and    *)
(*    underflow through the subnormals to a zero.  Mantissas and the       *)
(*    intermediate quotients exceed TLC's 32-bit integers, so they are     *)
(*    natural numbers of any size, kept as sequences of 15-bit limbs.      *)
(*    Text is ASCII; an int is a TLC integer.                              *)
(*  - Python's None is the integer None where an id is expected and the    *)
(*    empty sequence NoneStr where a str is expected (hero names are never *)
(*    empty).                                                              *)
(*  - An uncaught Python exception ends the handler: its name is kept in   *)
(*    the "error" field of what the handler produced.                      *)
(***************************************************************************)
EXTENDS Integers, Sequences, FiniteSets, TLC

VARIABLES
    mode,      \* CounterPrinter._mode
    parser,    \* CounterPrinter._parser: [cls, counters, countered]
    call,      \* inputs of the last print_counters call: [mode, hero_id, resp]
    result,    \* what compute_counters did in that call: [status, error, counters, countered]
    printed,   \* how the printing part of that call ended
    earlier    \* history: a call before the last one returned a non-empty list

vars == <<mode, parser, call, result, printed, earlier>>

-----------------------------------------------------------------------------
(* Bounds of the model *)

\* A single call on a new CounterPrinter (SpecCall):
\* longest API payload (number of matchup objects in the JSON array)
MaxPayload == 3

\* most data rows (rows after the header row) in one marked section
MaxRows == 2

\* Any sequence of calls on one CounterPrinter (Spec):
\* longest API payload
SeqMaxPayload == 2

\* most data rows in one marked section
SeqMaxRows == 1

\* One API payload answered again in every other order (SpecOrder):
\* longest API payload
MaxOrder == 4

-----------------------------------------------------------------------------
(* Python values *)

None == 0 - 1

NoneStr == << >>

\* the str "None", as str(None) gives it
StrOfNone == <<"N", "o", "n", "e">>

-----------------------------------------------------------------------------
(* Natural numbers of any size *)

\* A natural number is the sequence of its limbs in base 2^15, lowest limb
\* first and no zero limb last; 0 is << >>.
LimbBits == 15

Base == 32768

RECURSIVE Pow2(_)
Pow2(k) == IF k = 0 THEN 1 ELSE 2 * Pow2(k - 1)

Limb(a, i) == IF i \in DOMAIN a THEN a[i] ELSE 0

\* a without the zero limbs at its top
Trim(a) ==
    SubSeq(a, 1, Cardinality({i \in DOMAIN a : \E j \in i..Len(a) : a[j] # 0}))

\* the natural number n, for an integer 0 <= n < 2^31
BigOfInt(n) == Trim(<<n % Base, (n \div Base) % Base, n \div (Base * Base)>>)

BigLT(a, b) ==
    \/ Len(a) < Len(b)
    \/ /\ Len(a) = Len(b)
       /\ \E i \in DOMAIN a : a[i] < b[i] /\ \A j \in (i + 1)..Len(a) : a[j] = b[j]

BigLE(a, b) == a = b \/ BigLT(a, b)

\* the natural number a as an integer, for a < 2^31
IntOfBig(a) == Limb(a, 1) + Base * Limb(a, 2) + Base * Base * Limb(a, 3)

\* the limbs of a + b from limb i on
RECURSIVE BigAddFrom(_, _, _, _)
BigAddFrom(a, b, i, carry) ==
    IF i > Len(a) /\ i > Len(b) THEN BigOfInt(carry)
    ELSE <<(Limb(a, i) + Limb(b, i) + carry) % Base>>
         \o BigAddFrom(a, b, i + 1, (Limb(a, i) + Limb(b, i) + carry) \div Base)

BigAdd(a, b) == BigAddFrom(a, b, 1, 0)

\* a * 2^k
BigShl(a, k) ==
    Trim([i \in 1..(Len(a) + (k \div LimbBits) + 1) |->
            ((Limb(a, i - (k \div LimbBits)) * Pow2(k % LimbBits)) % Base)
          + ((Limb(a, i - (k \div LimbBits) - 1) * Pow2(k % LimbBits)) \div Base)])

\* a * m + c, for 0 < m < 2^16 and 0 <= c < 2^16
RECURSIVE BigMulAdd(_, _, _)
BigMulAdd(a, m, c) ==
    IF a = << >> THEN BigOfInt(c)
    ELSE <<(a[1] * m + c) % Base>> \o BigMulAdd(Tail(a), m, (a[1] * m + c) \div Base)

\* a * m, for 0 <= m < 2^16
BigMul(a, m) == IF m = 0 THEN << >> ELSE BigMulAdd(a, m, 0)

\* the limbs of a - b from limb i on, for a >= b
RECURSIVE BigSubFrom(_, _, _, _)
BigSubFrom(a, b, i, borrow) ==
    IF i > Len(a) THEN << >>
    ELSE IF a[i] - Limb(b, i) - borrow < 0
    THEN <<a[i] - Limb(b, i) - borrow + Base>> \o BigSubFrom(a, b, i + 1, 1)
    ELSE <<a[i] - Limb(b, i) - borrow>> \o BigSubFrom(a, b, i + 1, 0)

\* a - b, for a >= b
BigSub(a, b) == Trim(BigSubFrom(a, b, 1, 0))

\* the number of bits of a: 0 for 0, else 1 + floor(log2(a))
BitLen(a) ==
    IF a = << >> THEN 0
    ELSE LimbBits * (Len(a) - 1)
         + Cardinality({k \in 0..(LimbBits - 1) : Pow2(k) <= a[Len(a)]})

\* the largest q in 0..15 with d * q * 2^sh <= r
Nibble(r, d, sh) == Cardinality({q \in 1..15 : BigLE(BigShl(BigMul(d, q), sh), r)})

\* r div d and r mod d, the quotient built one hexadecimal digit at a time
\* from digit k down; acc holds the digits above k
RECURSIVE BigDivFrom(_, _, _, _)
BigDivStep(r, d, k, acc, q) ==
    BigDivFrom(BigSub(r, BigShl(BigMul(d, q), 4 * k)), d, k - 1, BigMulAdd(acc, 16, q))

BigDivFrom(r, d, k, acc) ==
    IF k < 0 THEN [quot |-> acc, rem |-> r]
    ELSE BigDivStep(r, d, k, acc, Nibble(r, d, 4 * k))

\* n div d and n mod d, for a quotient below 2^56
BigDivMod(n, d) == BigDivFrom(n, d, 13, << >>)

\* a * 5^k
RECURSIVE Times5Pow(_, _)
Times5Pow(a, k) ==
    IF k = 0 THEN a
    ELSE IF k >= 6 THEN Times5Pow(BigMulAdd(a, 15625, 0), k - 6)
    ELSE Times5Pow(BigMulAdd(a, 5, 0), k - 1)

-----------------------------------------------------------------------------
(* Python float: IEEE-754 binary64, round to nearest, ties to even *)

\* A float is [cls, neg, man, exp].  A finite one (cls "fin") is
\* man * 2^exp, negated when neg, with 2^52 <= man < 2^53 and
\* -1074 <= exp <= 971 (normal), or man < 2^52 and exp = -1074 (subnormal and
\* zero), so that equal values are equal records.  cls "inf" and "nan" are
\* the infinities and the NaN.
Finite(neg, man, exp) == [cls |-> "fin", neg |-> neg, man |-> man, exp |-> exp]

MinExp == 0 - 1074

MaxExp == 971

FloatZero(neg) == Finite(neg, << >>, MinExp)

Infinity(neg) == [cls |-> "inf", neg |-> neg, man |-> << >>, exp |-> 0]

\* float('inf'), float('-inf') and float('nan')
FloatInf == Infinity(FALSE)
FloatNegInf == Infinity(TRUE)
FloatNaN == [cls |-> "nan", neg |-> FALSE, man |-> << >>, exp |-> 0]

Two52 == BigShl(<<1>>, 52)

Two53 == BigShl(<<1>>, 53)

\* the float of a rounded mantissa: 2^53 is carried into the exponent, and a
\* value of 2^1024 or more is an infinity
Pack(neg, man, exp) ==
    IF man = Two53
    THEN IF exp + 1 > MaxExp THEN Infinity(neg) ELSE Finite(neg, Two52, exp + 1)
    ELSE IF exp > MaxExp THEN Infinity(neg)
    ELSE Finite(neg, man, exp)

\* floor(log2(p / q)), for p > 0 and q > 0
Log2Floor(p, q) ==
    IF BitLen(p) >= BitLen(q)
    THEN IF BigLE(BigShl(q, BitLen(p) - BitLen(q)), p)
         THEN BitLen(p) - BitLen(q) ELSE BitLen(p) - BitLen(q) - 1
    ELSE IF BigLE(q, BigShl(p, BitLen(q) - BitLen(p)))
         THEN BitLen(p) - BitLen(q) ELSE BitLen(p) - BitLen(q) - 1

\* the bits a float whose value lies in [2^e, 2^(e+1)) keeps below its first
FracBits(e) == IF e - MinExp < 52 THEN e - MinExp ELSE 52

\* quot + rem / d rounded to the nearest integer, a tie to the even one
RoundHalfEven(qr, d) ==
    IF \/ BigLT(d, BigShl(qr.rem, 1))
       \/ (d = BigShl(qr.rem, 1) /\ Limb(qr.quot, 1) % 2 = 1)
    THEN BigMulAdd(qr.quot, 1, 1)
    ELSE qr.quot

\* p * 2^sh / q rounded to an integer, for sh of either sign
RoundShifted(p, q, sh) ==
    IF sh >= 0
    THEN RoundHalfEven(BigDivMod(BigShl(p, sh), q), q)
    ELSE RoundHalfEven(BigDivMod(p, BigShl(q, 0 - sh)), BigShl(q, 0 - sh))

\* the float nearest to p / q * 2^bias whose value lies in [2^e, 2^(e+1))
RoundAt(p, q, bias, e, neg) ==
    IF e > MaxExp + 52 THEN Infinity(neg)
    ELSE IF FracBits(e) < 0 - 1 THEN FloatZero(neg)
    ELSE Pack(neg, RoundShifted(p, q, FracBits(e) - (e - bias)), e - FracBits(e))

\* the float nearest to p / q * 2^bias, for naturals p > 0 and q > 0
RoundQuotient(p, q, bias, neg) == RoundAt(p, q, bias, Log2Floor(p, q) + bias, neg)

IsZero(x) == x.cls = "fin" /\ x.man = << >>

\* abs(x) < abs(y), for floats that are not NaN
MagLT(x, y) ==
    \/ x.cls = "fin" /\ y.cls = "inf"
    \/ /\ x.cls = "fin" /\ y.cls = "fin"
       /\ (x.exp < y.exp \/ (x.exp = y.exp /\ BigLT(x.man, y.man)))

\* float comparisons: false on a NaN, and -0.0 equals 0.0
FloatEQ(x, y) == x.cls # "nan" /\ y.cls # "nan" /\ (x = y \/ (IsZero(x) /\ IsZero(y)))

FloatLT(x, y) ==
    /\ x.cls # "nan" /\ y.cls # "nan"
    /\ ~(IsZero(x) /\ IsZero(y))
    /\ IF x.neg # y.neg THEN x.neg
       ELSE IF x.neg THEN MagLT(y, x) ELSE MagLT(x, y)

FloatGT(x, y) == FloatLT(y, x)

FloatLE(x, y) == FloatLT(x, y) \/ FloatEQ(x, y)

FloatGE(x, y) == FloatLE(y, x)

Abs(n) == IF n < 0 THEN 0 - n ELSE n

\* n / d on ints, d # 0: the float nearest to the quotient
TrueDiv(n, d) ==
    IF n = 0 THEN FloatZero(d < 0)
    ELSE RoundQuotient(BigOfInt(Abs(n)), BigOfInt(Abs(d)), 0, (n < 0) # (d < 0))

\* x / 100 on floats: the float nearest to the quotient; inf, -inf, nan and
\* the zeros stay what they are
DivBy100(x) ==
    IF x.cls # "fin" \/ x.man = << >> THEN x
    ELSE RoundQuotient(x.man, BigOfInt(100), x.exp, x.neg)

-----------------------------------------------------------------------------
(* Python str *)
UpperLetters ==
    <<"A", "B", "C", "D", "E", "F", "G", "H", "I", "J", "K", "L", "M",
      "N", "O", "P", "Q", "R", "S", "T", "U", "V", "W", "X", "Y", "Z">>

LowerLetters ==
    <<"a", "b", "c", "d", "e", "f", "g", "h", "i", "j", "k", "l", "m",
      "n", "o", "p", "q", "r", "s", "t", "u", "v", "w", "x", "y", "z">>

\* str.lower() on one ASCII character
LowerChar(c) ==
    IF \E i \in DOMAIN UpperLetters : UpperLetters[i] = c
    THEN LowerLetters[CHOOSE i \in DOMAIN UpperLetters : UpperLetters[i] = c]
    ELSE c

Lower(s) == [i \in DOMAIN s |-> LowerChar(s[i])]

Digits == {"0", "1", "2", "3", "4", "5", "6", "7", "8", "9"}

DigitVal(c) ==
    CASE c = "0" -> 0 [] c = "1" -> 1 [] c = "2" -> 2 [] c = "3" -> 3
      [] c = "4" -> 4 [] c = "5" -> 5 [] c = "6" -> 6 [] c = "7" -> 7
      [] c = "8" -> 8 [] c = "9" -> 9

RECURSIVE IntOfDigits(_)
IntOfDigits(s) ==
    IF s = << >> THEN 0
    ELSE 10 * IntOfDigits(SubSeq(s, 1, Len(s) - 1)) + DigitVal(s[Len(s)])

\* the natural number a sequence of decimal digits denotes, four digits at a time
RECURSIVE BigOfDigits(_)
BigOfDigits(s) ==
    IF Len(s) <= 4 THEN BigOfInt(IntOfDigits(s))
    ELSE BigMulAdd(BigOfDigits(SubSeq(s, 1, Len(s) - 4)), 10000,
                   IntOfDigits(SubSeq(s, Len(s) - 3, Len(s))))

\* the vertical tab, chr(11)
VerticalTab == ""

\* the ASCII whitespace float() strips from both ends
Whitespace == {" ", "\t", "\n", VerticalTab, "\f", "\r"}

\* s without the whitespace it starts with
LStrip(s) ==
    SubSeq(s, 1 + Cardinality({i \in DOMAIN s : \A j \in 1..i : s[j] \in Whitespace}), Len(s))

\* s without the whitespace it ends with
RStrip(s) ==
    SubSeq(s, 1, Len(s) - Cardinality({i \in DOMAIN s : \A j \in i..Len(s) : s[j] \in Whitespace}))

Strip(s) == RStrip(LStrip(s))

\* float() takes an underscore only between two digits
UnderscoresOk(s) ==
    \A i \in DOMAIN s :
        s[i] = "_" => (i > 1 /\ i < Len(s) /\ s[i - 1] \in Digits /\ s[i + 1] \in Digits)

NotUnderscore(c) == c # "_"

AllDigits(s) == \A i \in DOMAIN s : s[i] \in Digits

\* the number of digits of a natural number without its leading zeros
SigDigits(s) == Len(s) - Cardinality({i \in DOMAIN s : \A j \in 1..i : s[j] = "0"})

\* the digits of a natural number without its leading zeros
Significant(s) == SubSeq(s, Len(s) - SigDigits(s) + 1, Len(s))

\* No float and no midpoint of two neighbouring floats has more than 767
\* significant decimal digits, so the digits past the first MaxDigits decide
\* a rounding only by being all zero or not: they are kept as one digit.
MaxDigits == 800

Shortened(sig) ==
    IF Len(sig) <= MaxDigits THEN sig
    ELSE SubSeq(sig, 1, MaxDigits)
         \o <<IF \E i \in (MaxDigits + 1)..Len(sig) : sig[i] # "0" THEN "1" ELSE "0">>

\* the number of digits Shortened leaves out
Dropped(sig) == IF Len(sig) <= MaxDigits THEN 0 ELSE Len(sig) - MaxDigits - 1

\* the ValueError float() raises
FloatError == [ok |-> FALSE, val |-> FloatZero(FALSE)]

\* where the exponent marker of a literal stands (past its end when it has none)
ExpAt(body) ==
    IF \E i \in DOMAIN body : body[i] \in {"e", "E"}
    THEN CHOOSE i \in DOMAIN body : body[i] \in {"e", "E"}
    ELSE Len(body) + 1

Mantissa(body) == SubSeq(body, 1, ExpAt(body) - 1)

Exponent(body) == SubSeq(body, ExpAt(body) + 1, Len(body))

ExpDigits(expo) ==
    IF expo # << >> /\ expo[1] \in {"+", "-"} THEN Tail(expo) ELSE expo

\* whether the exponent of a literal is negative
ExpNeg(expo) == expo # << >> /\ expo[1] = "-"

\* an exponent of more than ten digits after its leading zeros is 10^10 or
\* more in size, which is more than any two integers of TLC add up to
ExpHuge(expo) == SigDigits(ExpDigits(expo)) > 10

\* the size of an exponent that is not huge
ExpBig(expo) == BigOfDigits(Significant(ExpDigits(expo)))

\* the exponent of a literal as an integer, for a size below 2^31
ExpValue(expo) ==
    IF ExpNeg(expo) THEN 0 - IntOfBig(ExpBig(expo)) ELSE IntOfBig(ExpBig(expo))

\* where the "." of a mantissa stands (past its end when it has none)
DotAt(mant) ==
    IF \E i \in DOMAIN mant : mant[i] = "."
    THEN CHOOSE i \in DOMAIN mant : mant[i] = "."
    ELSE Len(mant) + 1

WholePart(mant) == SubSeq(mant, 1, DotAt(mant) - 1)

FracPart(mant) == SubSeq(mant, DotAt(mant) + 1, Len(mant))

\* digits with at most one "." and at least one digit
MantissaOk(mant) ==
    /\ Cardinality({i \in DOMAIN mant : mant[i] = "."}) <= 1
    /\ \A i \in DOMAIN mant : mant[i] \in Digits \cup {"."}
    /\ \E i \in DOMAIN mant : mant[i] \in Digits

\* a mantissa, then nothing or e|E [+|-] and at least one digit
DecimalOk(body) ==
    /\ Cardinality({i \in DOMAIN body : body[i] \in {"e", "E"}}) <= 1
    /\ MantissaOk(Mantissa(body))
    /\ ExpAt(body) <= Len(body) =>
          (ExpDigits(Exponent(body)) # << >> /\ AllDigits(ExpDigits(Exponent(body))))

\* the float nearest to sig * 10^scale, negated when neg, sig being digits
\* that do not start with a zero
ShortValue(sig, scale, neg) ==
    IF scale >= 0
    THEN RoundQuotient(Times5Pow(BigOfDigits(sig), scale), <<1>>, scale, neg)
    ELSE RoundQuotient(BigOfDigits(sig), Times5Pow(<<1>>, 0 - scale), scale, neg)

\* whether n significant digits, the last fracLen of them after the ".",
\* times 10^exponent are 10^310 or more: n - 1 - fracLen + exponent > 309
TooLarge(n, fracLen, expo) ==
    IF ExpNeg(expo)
    THEN ~ExpHuge(expo)
         /\ BigLT(BigAdd(ExpBig(expo), BigOfInt(fracLen + 310)), BigOfInt(n))
    ELSE ExpHuge(expo)
         \/ BigLT(BigOfInt(fracLen + 310), BigAdd(ExpBig(expo), BigOfInt(n)))

\* whether they are below 10^-326: n - fracLen + exponent < -326
TooSmall(n, fracLen, expo) ==
    IF ExpNeg(expo)
    THEN ExpHuge(expo)
         \/ BigLT(BigOfInt(n + 326), BigAdd(ExpBig(expo), BigOfInt(fracLen)))
    ELSE ~ExpHuge(expo)
         /\ BigLT(BigAdd(ExpBig(expo), BigOfInt(n + 326)), BigOfInt(fracLen))

\* the float nearest to digits * 10^(exponent - fracLen), negated when neg.
\* 10^310 is beyond every finite float and 10^-326 below half the least
\* positive one, so a magnitude of at least the one is an infinity and a
\* magnitude below the other a zero, without further arithmetic.
DecimalValue(digits, fracLen, expo, neg) ==
    IF SigDigits(digits) = 0 THEN FloatZero(neg)
    ELSE IF TooLarge(SigDigits(digits), fracLen, expo) THEN Infinity(neg)
    ELSE IF TooSmall(SigDigits(digits), fracLen, expo) THEN FloatZero(neg)
    ELSE ShortValue(Shortened(Significant(digits)),
                    ExpValue(expo) - fracLen + Dropped(Significant(digits)), neg)

\* the decimal literal body (no sign, no underscore)
PyDecimal(body, neg) ==
    IF ~DecimalOk(body) THEN FloatError
    ELSE [ok |-> TRUE,
          val |-> DecimalValue(WholePart(Mantissa(body)) \o FracPart(Mantissa(body)),
                               Len(FracPart(Mantissa(body))),
                               Exponent(body), neg)]

\* the text of a float literal once stripped and rid of its underscores
Unscored(s) == SelectSeq(Strip(s), NotUnderscore)

HasSign(u) == u # << >> /\ u[1] \in {"+", "-"}

Unsigned(u) == IF HasSign(u) THEN Tail(u) ELSE u

\* float(s) for a str s: surrounding whitespace stripped, underscores between
\* digits dropped, an optional sign, then inf, infinity or nan in any letter
\* casing, or a decimal literal; [ok |-> FALSE] is the ValueError of anything
\* else.  The value is the float nearest to the number the literal denotes.
PyFloat(s) ==
    IF ~UnderscoresOk(Strip(s)) THEN FloatError
    ELSE IF Lower(Unsigned(Unscored(s))) \in
               {<<"i", "n", "f">>, <<"i", "n", "f", "i", "n", "i", "t", "y">>}
    THEN [ok |-> TRUE,
          val |-> IF Unscored(s)[1] = "-" THEN FloatNegInf ELSE FloatInf]
    ELSE IF Lower(Unsigned(Unscored(s))) = <<"n", "a", "n">>
    THEN [ok |-> TRUE, val |-> FloatNaN]
    ELSE PyDecimal(Unsigned(Unscored(s)), HasSign(Unscored(s)) /\ Unscored(s)[1] = "-")

-----------------------------------------------------------------------------
(* src/counter_parsing.py, module constants *)

\* COUNTER_THRESHOLD = 0.40
COUNTER_THRESHOLD == PyFloat(<<"0", ".", "4", "0">>).val

\* a threshold moved into the neutral band
COUNTERED_THRESHOLD_low == PyFloat(<<"0", ".", "5", "0">>).val

\* COUNTERED_THRESHOLD = 0.60
COUNTERED_THRESHOLD == PyFloat(<<"0", ".", "6", "0">>).val

MIN_GAMES == 10

-----------------------------------------------------------------------------
(* src/modes.py *)

Mode == {"DB_SCRAPE", "OD_API", "OD_SCRAPE"}

-----------------------------------------------------------------------------
(* src/dota_constants.py: HeroTranslator *)

AntiMage == <<"A", "n", "t", "i", "-", "M", "a", "g", "e">>
Axe == <<"A", "x", "e">>

\* self._id_to_name_dict after __init__ has read heroes.json (two of its heroes)
id_to_name_dict == (1 :> AntiMage) @@ (2 :> Axe)

\* self._name_to_id_dict after __init__: lower-cased name -> id
name_to_id_dict ==
    [n \in {Lower(id_to_name_dict[h]) : h \in DOMAIN id_to_name_dict} |->
        CHOOSE h \in DOMAIN id_to_name_dict : Lower(id_to_name_dict[h]) = n]

\* HeroTranslator.name_to_id: the membership test is made on hero_name as given,
\* the lookup on hero_name.lower()
name_to_id(hero_name) ==
    IF hero_name \in DOMAIN name_to_id_dict
    THEN name_to_id_dict[Lower(hero_name)]
    ELSE None

\* HeroTranslator.id_to_name
id_to_name(hero_id) ==
    IF hero_id \in DOMAIN id_to_name_dict
    THEN id_to_name_dict[hero_id]
    ELSE NoneStr

-----------------------------------------------------------------------------
(* Inputs: what the two providers may answer *)

Matchup(h, g, w) == [hero_id |-> h, games_played |-> g, wins |-> w]

\* an id heroes.json does not hold
UnknownId == 999

\* matchup objects of an OpenDota answer: both sides of each cutoff, the
\* cutoffs themselves, equal winrates, too few games, no games, an unknown hero
APIRecords ==
    { Matchup(1, 20, 13), Matchup(1, 5, 13), Matchup(2, 20, 13),
      Matchup(2, 10, 6), Matchup(1, 10, 4), Matchup(2, 20, 8),
      Matchup(1, 10, 5), Matchup(2, 0, 0), Matchup(UnknownId, 20, 2) }

\* the matchup objects used in sequences of calls
SeqAPIRecords ==
    { Matchup(1, 20, 13), Matchup(2, 20, 13), Matchup(2, 10, 6), Matchup(1, 10, 4),
      Matchup(2, 0, 0) }

PayloadsOf(records, n) == UNION {[1..k -> records] : k \in 0..n}

Payloads == PayloadsOf(APIRecords, MaxPayload)

SeqPayloads == PayloadsOf(SeqAPIRecords, SeqMaxPayload)

\* the matchup objects given in several orders: for each list two heroes of
\* one winrate (0.65, 0.4) and an entry of another (0.6, 0.1)
OrderRecords ==
    { Matchup(1, 20, 13), Matchup(2, 20, 13), Matchup(2, 10, 6),
      Matchup(1, 10, 4), Matchup(2, 20, 8), Matchup(UnknownId, 20, 2) }

OrderPayloads == PayloadsOf(OrderRecords, MaxOrder)

\* the orderings of the records of a payload
OrderingsOf(p) == {[i \in 1..Len(p) |-> p[f[i]]] : f \in Permutations(1..Len(p))}

\* a <td> is the sequence of its children; a text child is a str
Td(text) == <<text>>

IconTd == Td(<<"i">>)

RowAxe == <<IconTd, Td(Axe), Td(<<"6", "2", ".", "5", "%">>)>>
RowLowerAxe == <<IconTd, Td(Lower(Axe)), Td(<<"0", ".", "7", "%">>)>>
RowAntiMage == <<IconTd, Td(AntiMage), Td(<<"-", "2", ".", "5", "%">>)>>
RowUpperAxe == <<IconTd, Td(<<"A", "X", "E">>), Td(<<"6", "2", ".", "5", "%">>), IconTd>>
RowTwoCells == <<IconTd, Td(Axe)>>

\* <tr> rows of a Dotabuff section, as the <td> cells findAll("td") gives
Rows == {RowAxe, RowLowerAxe, RowAntiMage, RowUpperAxe, RowTwoCells}

\* the rows used in sequences of calls
SeqRows == {RowAxe, RowTwoCells}

\* the header row holds <th> cells only
HeaderRow == << >>

\* a marked section: no row at all, or the header row and some data rows
SectionsOf(rows, n) ==
    {<< >>} \cup UNION {{<<HeaderRow>> \o d : d \in [1..k -> rows]} : k \in 0..n}

\* the elements of class "counter-outline" of a page: none, one or two
DocumentsOf(sections) ==
    {<< >>} \cup {<<a>> : a \in sections} \cup {<<a, b>> : a \in sections, b \in sections}

Documents == DocumentsOf(SectionsOf(Rows, MaxRows))

SeqDocuments == DocumentsOf(SectionsOf(SeqRows, SeqMaxRows))

NoRequest == [kind |-> "no_request", ok |-> FALSE, json |-> << >>, html |-> << >>]
ConnectionError == [kind |-> "ConnectionError", ok |-> FALSE, json |-> << >>, html |-> << >>]
NotFound == [kind |-> "response", ok |-> FALSE, json |-> << >>, html |-> << >>]

Page(json, html) == [kind |-> "response", ok |-> TRUE, json |-> json, html |-> html]

\* what requests.get may do for the request a call makes, if it makes one
Responses(m, hero_id, payloads, documents) ==
    CASE m = "OD_SCRAPE" -> {NoRequest}
      [] m = "DB_SCRAPE" ->
            IF id_to_name(hero_id) = NoneStr THEN {NoRequest}
            ELSE {ConnectionError, NotFound} \cup {Page(<< >>, d) : d \in documents}
      [] m = "OD_API" ->
            {ConnectionError, NotFound} \cup {Page(p, << >>) : p \in payloads}

HeroArgs == {2, UnknownId}

-----------------------------------------------------------------------------
(* The float arithmetic of the code on the inputs above, each result computed
   once *)

\* wins / games_played of the matchup objects
Quotients ==
    {<<m.wins, m.games_played, TrueDiv(m.wins, m.games_played)>> :
        m \in {r \in APIRecords : r.games_played # 0}}

\* the quotient found among hits, else n / d
QuotientOr(hits, n, d) ==
    IF hits = {} THEN TrueDiv(n, d) ELSE (CHOOSE c \in hits : TRUE)[3]

\* n / d on ints, d # 0
Div(n, d) == QuotientOr({c \in Quotients : c[1] = n /\ c[2] = d}, n, d)

\* f / 100 for what float() gave, its ValueError included
Percent(f) == IF f.ok THEN [ok |-> TRUE, val |-> DivBy100(f.val)] ELSE FloatError

\* float(text[:-1]) / 100, or the ValueError of float()
ParseScore(text) == Percent(PyFloat(SubSeq(text, 1, Len(text) - 1)))

\* the scores of the rows' percentage cells
Scores100 == {<<row[3][1], ParseScore(row[3][1])>> : row \in {r \in Rows : Len(r) >= 3}}

\* the score found among hits, else that of text
ScoreOr(hits, text) ==
    IF hits = {} THEN ParseScore(text) ELSE (CHOOSE c \in hits : TRUE)[2]

\* float(text[:-1]) / 100
PercentScore(text) == ScoreOr({c \in Scores100 : c[1] = text}, text)

-----------------------------------------------------------------------------
(* src/counter_parsing.py: CounterParser *)

\* CounterParser.__init__: the two member lists start empty
NewParser(cls) == [cls |-> cls, counters |-> << >>, countered |-> << >>]

\* what a call that raised produced
Raised(self, err) == [self |-> self, error |-> err, data |-> << >>]

\* the None that _get_page returns for "no page"
NonePage == [kind |-> "None", ok |-> FALSE, json |-> << >>, html |-> << >>]

\* CounterParser._get_page: None on a ConnectionError and on a falsy response
\* (Response.__bool__ is Response.ok), the response otherwise
get_page(resp) ==
    IF resp.kind = "ConnectionError" THEN NonePage
    ELSE IF ~resp.ok THEN NonePage
    ELSE resp

-----------------------------------------------------------------------------
(* list.sort(key=lambda p: p[1], reverse=...): stable in both directions *)

\* x put after every element it must not precede
RECURSIVE InsertSorted(_, _, _)
InsertSorted(x, sorted, reverse) ==
    IF sorted = << >> THEN <<x>>
    ELSE LET h == Head(sorted)
             before == IF reverse THEN FloatGT(x[2], h[2]) ELSE FloatLT(x[2], h[2])
         IN  IF before THEN <<x>> \o sorted
             ELSE <<h>> \o InsertSorted(x, Tail(sorted), reverse)

RECURSIVE SortFrom(_, _, _, _)
SortFrom(lst, i, acc, reverse) ==
    IF i > Len(lst) THEN acc
    ELSE SortFrom(lst, i + 1, InsertSorted(lst[i], acc, reverse), reverse)

\* a sort that ignores reverse
PySort_ascending(lst, reverse) == SortFrom(lst, 1, << >>, FALSE)

\* a missing sort
PySort_none(lst, reverse) == lst

PySort(lst, reverse) == SortFrom(lst, 1, << >>, reverse)

-----------------------------------------------------------------------------
(* src/counter_parsing.py: ODAPIParser *)

\* ODAPIParser._get_matchups: [] when there is no page, else json.loads(page.text)
ODAPI_get_matchups(self, hero_id, resp) ==
    IF get_page(resp) = NonePage
    THEN [self |-> self, error |-> "", data |-> << >>]
    ELSE [self |-> self, error |-> "", data |-> get_page(resp).json]

\* the for loop of ODAPIParser._init_counters, from matchup i on
RECURSIVE ODAPI_loop(_, _, _, _)
\* the body of the loop for one matchup, once its winrate is computed
ODAPI_body(matchups_data, i, countered_heroes, counter_heroes, matchup_info, games_played) ==
    IF games_played >= MIN_GAMES
    THEN IF FloatGE(matchup_info[2], COUNTERED_THRESHOLD)
         THEN ODAPI_loop(matchups_data, i + 1,
                  Append(countered_heroes, matchup_info), counter_heroes)
         ELSE IF FloatLE(matchup_info[2], COUNTER_THRESHOLD)
         THEN ODAPI_loop(matchups_data, i + 1,
                  countered_heroes, Append(counter_heroes, matchup_info))
         ELSE ODAPI_loop(matchups_data, i + 1, countered_heroes, counter_heroes)
    ELSE ODAPI_loop(matchups_data, i + 1, countered_heroes, counter_heroes)

\* winrate = wins / games_played comes first: a ZeroDivisionError when
\* games_played is 0
ODAPI_loop(matchups_data, i, countered_heroes, counter_heroes) ==
    IF i > Len(matchups_data)
    THEN [error |-> "", countered |-> countered_heroes, counters |-> counter_heroes]
    ELSE IF matchups_data[i].games_played = 0
    THEN [error |-> "ZeroDivisionError",
          countered |-> countered_heroes, counters |-> counter_heroes]
    ELSE ODAPI_body(matchups_data, i, countered_heroes, counter_heroes,
             <<matchups_data[i].hero_id,
               Div(matchups_data[i].wins, matchups_data[i].games_played)>>,
             matchups_data[i].games_played)

\* the end of ODAPIParser._init_counters: the two lists the loop left are
\* sorted and assigned, unless the loop raised
ODAPI_sorted(self, r) ==
    IF r.error # ""
    THEN [self |-> self, error |-> r.error]
    ELSE [self |-> [self EXCEPT !.countered = PySort(r.countered, TRUE),
                                !.counters = PySort(r.counters, FALSE)],
          error |-> ""]

\* member lists used as the accumulators of the loop, never emptied
ODAPI_init_counters_accumulate(self, matchups_data) ==
    ODAPI_sorted(self, ODAPI_loop(matchups_data, 1, self.countered, self.counters))

\* ODAPIParser._init_counters: self after the call and the exception it raised
ODAPI_init_counters(self, matchups_data) ==
    ODAPI_sorted(self, ODAPI_loop(matchups_data, 1, << >>, << >>))

-----------------------------------------------------------------------------
(* src/counter_parsing.py: DBSCRAPEParser *)

\* Tag.string of a <td>: its only child when it has exactly one, else None
TagString(td) == IF Len(td) = 1 THEN td[1] ELSE NoneStr

\* str(x) for a str or None
Str(x) == IF x = NoneStr THEN StrOfNone ELSE x

\* the for loop of _create_matchups_list, from row i of tags on
RECURSIVE create_loop(_, _, _)
\* the end of the loop's body for one row: res.append((hero_id, hero_score)),
\* unless float() raised
create_append(tags, i, res, hero_id, hero_score) ==
    IF ~hero_score.ok THEN [error |-> "ValueError", list |-> << >>]
    ELSE create_loop(tags, i + 1, Append(res, <<hero_id, hero_score.val>>))

create_loop(tags, i, res) ==
    IF i > Len(tags) THEN [error |-> "", list |-> res]
    ELSE IF Len(tags[i]) < 3 THEN [error |-> "", list |-> << >>]
    ELSE IF tags[i][3] = << >> THEN [error |-> "IndexError", list |-> << >>]
    ELSE create_append(tags, i, res,
             name_to_id(Str(TagString(tags[i][2]))), PercentScore(tags[i][3][1]))

\* _create_matchups_list: the rows tags[1:], i.e. from the second row on
create_matchups_list(tags) == create_loop(tags, 2, << >>)

\* the unpacking of the two sections the other way round
DBSCRAPE_sections_swapped(matchup_sections) ==
    [counter_section |-> matchup_sections[2], countered_section |-> matchup_sections[1]]

\* counter_section, countered_section = matchup_sections[0], matchup_sections[1]
DBSCRAPE_sections(matchup_sections) ==
    [counter_section |-> matchup_sections[1], countered_section |-> matchup_sections[2]]

\* the return of DBSCRAPEParser._get_matchups: the pair (countered_list,
\* counter_list), unless one of the two extractions raised
DBSCRAPE_pair(self, countered_list, counter_list) ==
    IF countered_list.error # "" THEN Raised(self, countered_list.error)
    ELSE IF counter_list.error # "" THEN Raised(self, counter_list.error)
    ELSE [self |-> self, error |-> "",
          data |-> <<countered_list.list, counter_list.list>>]

\* the two sections of a page, each through _create_matchups_list
DBSCRAPE_extract(self, s) ==
    DBSCRAPE_pair(self, create_matchups_list(s.countered_section),
                        create_matchups_list(s.counter_section))

\* what _get_matchups does with the page _get_page gave: ([], []) without a
\* page or without two marked sections
DBSCRAPE_page(self, matchups_page) ==
    IF matchups_page = NonePage
    THEN [self |-> self, error |-> "", data |-> << << >>, << >> >>]
    ELSE IF Len(matchups_page.html) < 2
    THEN [self |-> self, error |-> "", data |-> << << >>, << >> >>]
    ELSE DBSCRAPE_extract(self, DBSCRAPE_sections(matchups_page.html))

\* DBSCRAPEParser._get_matchups: id_to_name(hero_id).lower() raises
\* AttributeError on None; the slug built from the name only selects the URL,
\* whose answer is resp.
DBSCRAPE_get_matchups(self, hero_id, resp) ==
    IF id_to_name(hero_id) = NoneStr
    THEN Raised(self, "AttributeError")
    ELSE DBSCRAPE_page(self, get_page(resp))

\* DBSCRAPEParser._init_counters: self.countered, self.counters = matchups_data
DBSCRAPE_init_counters(self, matchups_data) ==
    [self |-> [self EXCEPT !.countered = matchups_data[1],
                           !.counters = matchups_data[2]],
     error |-> ""]

-----------------------------------------------------------------------------
(* src/counter_parsing.py: ODSCRAPEParser, which implements nothing *)

\* ODSCRAPEParser._get_matchups: return None
ODSCRAPE_get_matchups(self, hero_id, resp) ==
    [self |-> self, error |-> "", data |-> << >>]

\* ODSCRAPEParser._init_counters: return
ODSCRAPE_init_counters(self, matchups_data) == [self |-> self, error |-> ""]

-----------------------------------------------------------------------------
(* src/counter_parsing.py: CounterParser.compute_counters *)

get_matchups(self, hero_id, resp) ==
    CASE self.cls = "ODAPIParser" -> ODAPI_get_matchups(self, hero_id, resp)
      [] self.cls = "DBSCRAPEParser" -> DBSCRAPE_get_matchups(self, hero_id, resp)
      [] self.cls = "ODSCRAPEParser" -> ODSCRAPE_get_matchups(self, hero_id, resp)

init_counters(self, matchups_data) ==
    CASE self.cls = "ODAPIParser" -> ODAPI_init_counters(self, matchups_data)
      [] self.cls = "DBSCRAPEParser" -> DBSCRAPE_init_counters(self, matchups_data)
      [] self.cls = "ODSCRAPEParser" -> ODSCRAPE_init_counters(self, matchups_data)

\* the return of compute_counters, c being what _init_counters did
compute_return(c) ==
    IF c.error # ""
    THEN [self |-> c.self, status |-> "raised", error |-> c.error,
          counters |-> << >>, countered |-> << >>]
    ELSE [self |-> c.self, status |-> "returned", error |-> "",
          counters |-> c.self.counters, countered |-> c.self.countered]

\* self._init_counters(matchups_data), m being what _get_matchups did
compute_init(m) ==
    IF m.error # ""
    THEN [self |-> m.self, status |-> "raised", error |-> m.error,
          counters |-> << >>, countered |-> << >>]
    ELSE compute_return(init_counters(m.self, m.data))

\* compute_counters: self after the call, and either the pair it returned
\* (status "returned") or the exception that left it (status "raised")
compute_counters(self, hero_id, resp) == compute_init(get_matchups(self, hero_id, resp))

-----------------------------------------------------------------------------
(* src/counter_parsing.py: CounterPrinter *)

\* CounterPrinter._update_parser
update_parser(m) ==
    CASE m = "OD_API" -> NewParser("ODAPIParser")
      [] m = "DB_SCRAPE" -> NewParser("DBSCRAPEParser")
      [] m = "OD_SCRAPE" -> NewParser("ODSCRAPEParser")

\* CounterPrinter._print_matchup_list: "\t" + hero_name raises TypeError when
\* id_to_name gave None
print_matchup_list(matchup_list) ==
    IF \E i \in DOMAIN matchup_list : id_to_name(matchup_list[i][1]) = NoneStr
    THEN "TypeError"
    ELSE "ok"

\* the printing part of print_counters: the countered list, then the counters
print_lists(counters, countered) ==
    IF print_matchup_list(countered) # "ok" THEN print_matchup_list(countered)
    ELSE print_matchup_list(counters)

-----------------------------------------------------------------------------
(* The state machine *)

NoCall == [mode |-> "none", hero_id |-> None, resp |-> NoRequest]

NoResult == [status |-> "none", error |-> "", counters |-> << >>, countered |-> << >>]

\* CounterPrinter.__init__(hero_trans, mode)
Init ==
    /\ mode \in Mode
    /\ parser = update_parser(mode)
    /\ call = NoCall
    /\ result = NoResult
    /\ printed = "none"
    /\ earlier = FALSE

\* CounterPrinter.set_mode(new_mode)
set_mode(new_mode) ==
    /\ mode' = new_mode
    /\ parser' = update_parser(new_mode)
    /\ UNCHANGED <<call, result, printed, earlier>>

\* CounterPrinter.print_counters(hero_id), with the answer resp to its request
print_counters(hero_id, resp) ==
    \E r \in {compute_counters(parser, hero_id, resp)} :
        /\ parser' = r.self
        /\ call' = [mode |-> mode, hero_id |-> hero_id, resp |-> resp]
        /\ result' = [status |-> r.status, error |-> r.error,
                      counters |-> r.counters, countered |-> r.countered]
        /\ printed' = IF r.status = "raised" THEN "not_reached"
                      ELSE print_lists(r.counters, r.countered)
        /\ earlier' = (earlier \/ result.counters # << >> \/ result.countered # << >>)
        /\ UNCHANGED mode

\* any sequence of set_mode and print_counters calls
Next ==
    \/ \E new_mode \in Mode : set_mode(new_mode)
    \/ \E hero_id \in HeroArgs :
          \E resp \in Responses(mode, hero_id, SeqPayloads, SeqDocuments) :
              print_counters(hero_id, resp)

Spec == Init /\ [][Next]_vars

\* set_mode calls, then one print_counters call
NextCall ==
    \/ /\ call = NoCall
       /\ \E new_mode \in Mode : set_mode(new_mode)
    \/ /\ call = NoCall
       /\ \E hero_id \in HeroArgs :
             \E resp \in Responses(mode, hero_id, Payloads, Documents) :
                 print_counters(hero_id, resp)

SpecCall == Init /\ [][NextCall]_vars

\* set_mode calls, then a print_counters call the API answers with a page of
\* records, then calls for the same hero that are answered with the same
\* records in any order, until a call before the last one has given entries
NextOrder ==
    \/ /\ call = NoCall
       /\ \E new_mode \in Mode : set_mode(new_mode)
    \/ /\ call = NoCall
       /\ mode = "OD_API"
       /\ \E hero_id \in HeroArgs :
             \E p \in OrderPayloads : print_counters(hero_id, Page(p, << >>))
    \/ /\ call # NoCall
       /\ ~earlier
       /\ \E q \in OrderingsOf(call.resp.json) :
             print_counters(call.hero_id, Page(q, << >>))

SpecOrder == Init /\ [][NextOrder]_vars

-----------------------------------------------------------------------------
(* What the claims speak of *)

\* the last call got a page from the OpenDota API / from Dotabuff
APIPage == call.mode = "OD_API" /\ call.resp.kind = "response" /\ call.resp.ok
DBPage == call.mode = "DB_SCRAPE" /\ call.resp.kind = "response" /\ call.resp.ok

\* the last call's request failed: transport failure, or a falsy response
FetchFailed == call.resp = ConnectionError \/ call.resp = NotFound

Returned == result.status = "returned"
BothEmpty == result.counters = << >> /\ result.countered = << >>

AllPlayed(p) == \A i \in DOMAIN p : p[i].games_played > 0

HexDigits ==
    <<"0", "1", "2", "3", "4", "5", "6", "7", "8", "9", "a", "b", "c", "d", "e", "f">>

HexVal(c) == (CHOOSE i \in DOMAIN HexDigits : HexDigits[i] = c) - 1

RECURSIVE BigOfHex(_)
BigOfHex(s) ==
    IF s = << >> THEN << >>
    ELSE BigMulAdd(BigOfHex(SubSeq(s, 1, Len(s) - 1)), 16, HexVal(s[Len(s)]))

\* the float that float.hex() writes 0x1.<frac>p<e>, frac being 13 hexadecimal
\* digits; negated when neg
HexFloat(neg, frac, e) == Finite(neg, BigOfHex(<<"1">> \o frac), e - 52)

\* the floats 0.6, 0.4 and 0.65
Float_0_6 == HexFloat(FALSE, <<"3", "3", "3", "3", "3", "3", "3", "3", "3", "3", "3", "3", "3">>, 0 - 1)
Float_0_4 == HexFloat(FALSE, <<"9", "9", "9", "9", "9", "9", "9", "9", "9", "9", "9", "9", "a">>, 0 - 2)
Float_0_65 == HexFloat(FALSE, <<"4", "c", "c", "c", "c", "c", "c", "c", "c", "c", "c", "c", "d">>, 0 - 1)

\* the cutoffs, as the specification states them
AtLeast60(score) == FloatGE(score, Float_0_6)
AtMost40(score) == FloatLE(score, Float_0_4)

CutoffsHold ==
    /\ \A i \in DOMAIN result.countered : AtLeast60(result.countered[i][2])
    /\ \A i \in DOMAIN result.counters : AtMost40(result.counters[i][2])

\* data rows of a section: every row after the first
DataRows(section) == IF section = << >> THEN << >> ELSE Tail(section)

TwoGoodSections(doc) ==
    /\ Len(doc) = 2
    /\ \A k \in 1..2 : \A i \in DOMAIN DataRows(doc[k]) : Len(DataRows(doc[k])[i]) >= 3

-----------------------------------------------------------------------------
(* C1 *)

\* C1 as stated: for both supported variants, every entry of countered has
\* score >= 0.60 and every entry of counters has score <= 0.40 (so none lies
\* strictly between the cutoffs).
C1_AsStated ==
    (Returned /\ call.mode \in {"OD_API", "DB_SCRAPE"}) => CutoffsHold

\* C1, amended: the pair returned under the API variant satisfies the cutoffs:
\* every entry of countered has score >= 0.60, every entry of counters has
\* score <= 0.40, for every fetched payload.
C1_Cutoffs == (Returned /\ call.mode = "OD_API") => CutoffsHold

C1_Witness ==
    /\ APIPage /\ Returned
    /\ result.countered # << >> /\ result.counters # << >>
    /\ \E i \in DOMAIN call.resp.json :
          LET m == call.resp.json[i]
          IN  m.games_played >= 10 /\ m.wins * 2 = m.games_played

-----------------------------------------------------------------------------
(* C2: the reference classifier *)

RefScore(m) == Div(m.wins, m.games_played)

RefCountered(m) == m.games_played >= 10 /\ 100 * m.wins >= 60 * m.games_played

RefCounter(m) ==
    m.games_played >= 10 /\ ~RefCountered(m) /\ 100 * m.wins <= 40 * m.games_played

RefEntries(ms) == [i \in 1..Len(ms) |-> <<ms[i].hero_id, RefScore(ms[i])>>]

\* the place of entry i of es in the ordered list: after every entry of a
\* better score and after every earlier entry of the same score
RefPlace(es, i, descending) ==
    1 + Cardinality({j \in 1..Len(es) :
            \/ (descending /\ FloatGT(es[j][2], es[i][2]))
            \/ (~descending /\ FloatLT(es[j][2], es[i][2]))
            \/ (es[j][2] = es[i][2] /\ j < i)})

RefOrdered(es, descending) ==
    [k \in 1..Len(es) |-> es[CHOOSE i \in 1..Len(es) : RefPlace(es, i, descending) = k]]

RefClassify(p) ==
    [countered |-> RefOrdered(RefEntries(SelectSeq(p, RefCountered)), TRUE),
     counters |-> RefOrdered(RefEntries(SelectSeq(p, RefCounter)), FALSE)]

\* C2: for every API payload whose entries all have games_played > 0 the two
\* lists are those of the reference classifier (fewer than 10 games: dropped;
\* wins/games >= 0.60: countered, else <= 0.40: counters; countered by score
\* descending, counters ascending, equal scores in payload order); and
\* {1, 20, 13} gives countered = [(1, 0.65)], {1, 5, 13} two empty lists.
C2_Reference ==
    (APIPage /\ AllPlayed(call.resp.json)) =>
        /\ Returned
        /\ result.countered = RefClassify(call.resp.json).countered
        /\ result.counters = RefClassify(call.resp.json).counters
        /\ call.resp.json = <<Matchup(1, 20, 13)>> =>
              result.countered = << <<1, Float_0_65>> >> /\ result.counters = << >>
        /\ call.resp.json = <<Matchup(1, 5, 13)>> => BothEmpty

C2_Witness ==
    /\ APIPage /\ AllPlayed(call.resp.json) /\ Returned
    /\ Len(call.resp.json) = 3
    /\ Len(result.countered) = 3
    /\ result.countered[1][2] = result.countered[2][2]
    /\ result.countered[2][2] # result.countered[3][2]

-----------------------------------------------------------------------------
(* C3 *)

\* C3 as stated: when the fetch step fails, compute does not return a
\* successful result with two empty lists (it returns a failure value that
\* carries NetworkError or NotFound).
C3_AsStated == FetchFailed => ~(Returned /\ BothEmpty)

-----------------------------------------------------------------------------
(* C4 *)

\* C4: when an API payload contains an entry with games_played = 0, the call
\* does not end in a runtime fault (games_played is checked before dividing).
C4_AsStated ==
    (APIPage /\ ~AllPlayed(call.resp.json)) => result.status # "raised"

-----------------------------------------------------------------------------
(* C5 *)

\* the floats 62.5 / 100 = 0.625, 0.7 / 100 = 0.006999999999999999 (the float
\* below 0.007) and -2.5 / 100 = -0.025
Float_0_625 == HexFloat(FALSE, <<"4", "0", "0", "0", "0", "0", "0", "0", "0", "0", "0", "0", "0">>, 0 - 1)
Float_0_7_by_100 == HexFloat(FALSE, <<"c", "a", "c", "0", "8", "3", "1", "2", "6", "e", "9", "7", "8">>, 0 - 8)
Float_minus_0_025 == HexFloat(TRUE, <<"9", "9", "9", "9", "9", "9", "9", "9", "9", "9", "9", "9", "a">>, 0 - 6)

\* the percentage strings of the model's rows, divided by 100
RefPercent(text) ==
    CASE text = <<"6", "2", ".", "5", "%">> -> Float_0_625
      [] text = <<"0", ".", "7", "%">> -> Float_0_7_by_100
      [] text = <<"-", "2", ".", "5", "%">> -> Float_minus_0_025

\* list holds one entry per data row of section, in document order, each with
\* the row's percentage / 100 as score
RowsBecome(section, list) ==
    /\ Len(list) = Len(DataRows(section))
    /\ \A i \in DOMAIN list : list[i][2] = RefPercent(DataRows(section)[i][3][1])

\* C5: for every document with two marked sections whose data rows all have
\* at least three cells, the data rows of the first section become the
\* counters list and those of the second the countered list, in document
\* order, with score = percentage / 100; section 1 = (Axe, 62.5%) and an
\* empty section 2 give one counters entry of score 0.625 and no countered.
C5_Positional ==
    (DBPage /\ TwoGoodSections(call.resp.html)) =>
        /\ Returned
        /\ RowsBecome(call.resp.html[1], result.counters)
        /\ RowsBecome(call.resp.html[2], result.countered)
        /\ call.resp.html = <<<<HeaderRow, RowAxe>>, <<HeaderRow>>>> =>
              /\ Len(result.counters) = 1
              /\ result.counters[1][2] = Float_0_625
              /\ result.countered = << >>

C5_Witness ==
    /\ DBPage /\ TwoGoodSections(call.resp.html) /\ Returned
    /\ Len(result.counters) = 2 /\ Len(result.countered) = 1
    /\ result.counters[1][2] # result.counters[2][2]
    /\ result.countered[1][2] # result.counters[1][2]
    /\ result.countered[1][2] # result.counters[2][2]

-----------------------------------------------------------------------------
(* C6 *)

\* the id of the hero whose display name is name in some letter casing
HeroOf(name) ==
    IF \E h \in DOMAIN id_to_name_dict : Lower(id_to_name_dict[h]) = Lower(name)
    THEN CHOOSE h \in DOMAIN id_to_name_dict : Lower(id_to_name_dict[h]) = Lower(name)
    ELSE None

RowsResolved(section, list) ==
    \A i \in DOMAIN list :
        i \in DOMAIN DataRows(section) =>
            LET name == DataRows(section)[i][2][1]
            IN  HeroOf(name) # None => list[i][1] = HeroOf(name)

\* C6: name_to_id is case-insensitive, so every document row whose middle
\* cell holds a hero's display name, in any letter casing, is extracted with
\* that hero's id as opponent_id.
C6_AsStated ==
    (DBPage /\ TwoGoodSections(call.resp.html) /\ Returned) =>
        /\ RowsResolved(call.resp.html[1], result.counters)
        /\ RowsResolved(call.resp.html[2], result.countered)

-----------------------------------------------------------------------------
(* C7 *)

Malformed(section) ==
    \E i \in DOMAIN DataRows(section) : Len(DataRows(section)[i]) < 3

\* C7: if any data row of either marked section has fewer than three cells,
\* the call returns no records at all, from neither section.
C7_AsStated ==
    (DBPage /\ Len(call.resp.html) = 2
        /\ (Malformed(call.resp.html[1]) \/ Malformed(call.resp.html[2])))
    => BothEmpty

-----------------------------------------------------------------------------
(* C8 *)

Resolves(list) == \A i \in DOMAIN list : id_to_name(list[i][1]) # NoneStr

\* C8: every entry of the two returned lists has an opponent_id that
\* id_to_name resolves, and printing the result does not fail.
C8_AsStated ==
    call.mode \in {"OD_API", "DB_SCRAPE"} =>
        /\ Returned => (Resolves(result.counters) /\ Resolves(result.countered))
        /\ printed # "TypeError"

-----------------------------------------------------------------------------
(* C9 *)

\* what a newly constructed parser of the call's variant does with the call
FreshResult(c) ==
    LET r == compute_counters(update_parser(c.mode), c.hero_id, c.resp)
    IN  [status |-> r.status, error |-> r.error,
         counters |-> r.counters, countered |-> r.countered]

\* C9: across any sequence of set_mode and compute calls, the result of a
\* call is what a newly constructed engine gives for the same variant and the
\* same fetched payload or failure: nothing of an earlier call appears in it,
\* and identical fetch results give identical results.
C9_NoLeak == call # NoCall => result = FreshResult(call)

C9_Witness ==
    /\ earlier /\ call.mode = "DB_SCRAPE" /\ DBPage /\ Returned
    /\ Len(result.counters) = 1 /\ result.countered = << >>

-----------------------------------------------------------------------------
(* C10 *)

\* the calls before and after a step are API calls on two orderings of one
\* multiset of records, all with games_played > 0
IsOrderingOf(p, q) ==
    /\ Len(p) = Len(q)
    /\ \A r \in {p[i] : i \in DOMAIN p} :
          Cardinality({i \in DOMAIN p : p[i] = r}) = Cardinality({i \in DOMAIN q : q[i] = r})

Reordered ==
    /\ APIPage /\ APIPage'
    /\ AllPlayed(call.resp.json) /\ AllPlayed(call'.resp.json)
    /\ IsOrderingOf(call.resp.json, call'.resp.json)

Scores(list) == [i \in 1..Len(list) |-> list[i][2]]

SameEntries(l1, l2) ==
    /\ Len(l1) = Len(l2)
    /\ \A e \in {l1[i] : i \in DOMAIN l1} :
          Cardinality({i \in DOMAIN l1 : l1[i] = e}) = Cardinality({i \in DOMAIN l2 : l2[i] = e})

NonIncreasing(list) ==
    \A i \in 1..(Len(list) - 1) : FloatGE(list[i][2], list[i + 1][2])

NonDecreasing(list) ==
    \A i \in 1..(Len(list) - 1) : FloatLE(list[i][2], list[i + 1][2])

\* the entry classification makes of a record
Entry(m) == <<m.hero_id, RefScore(m)>>

Enough(m) == m.games_played >= MIN_GAMES

\* the entries of the records of a payload that have enough games, in its order
Entries(p) ==
    [i \in 1..Len(SelectSeq(p, Enough)) |-> Entry(SelectSeq(p, Enough)[i])]

\* the entries of a list that have the score s, in its order
Tied(list, s) == SelectSeq(list, LAMBDA e : e[2] = s)

\* the entries of one score stand in a list as they stand among entries
TiesInOrderOf(list, entries) ==
    \A e \in {list[k] : k \in DOMAIN list} :
        Tied(list, e[2]) = Tied(entries, e[2])

\* the entries of one score stand in a list as their records stand in the payload
TiesInInputOrder(list, p) == TiesInOrderOf(list, Entries(p))

\* the sort put the first two entries of a list in another order than their
\* records had in the payload
Moved(list, p) ==
    \E i \in DOMAIN p : \E j \in DOMAIN p :
        i < j /\ Entry(p[i]) = list[2] /\ Entry(p[j]) = list[1]

\* C10 as stated: two orderings of the same records give the same counters
\* list and the same countered list, entry for entry.
C10_AsStated == [][Reordered => result' = result]_vars

\* C10, amended: two orderings of the same records (all with games_played > 0)
\* give, for each list, the same entries as a multiset and the same sequence
\* of scores, countered non-increasing and counters non-decreasing; entries of
\* equal score stand in each result as their records stand in the payload of
\* its call, so they may change places between the two results.
C10_UpToTies ==
    [][Reordered =>
        /\ SameEntries(result'.countered, result.countered)
        /\ SameEntries(result'.counters, result.counters)
        /\ Scores(result'.countered) = Scores(result.countered)
        /\ Scores(result'.counters) = Scores(result.counters)
        /\ NonIncreasing(result'.countered)
        /\ NonDecreasing(result'.counters)
        /\ TiesInInputOrder(result'.countered, call'.resp.json)
        /\ TiesInInputOrder(result'.counters, call'.resp.json)]_vars

\* a reordered payload of which the sort moved two entries of different
\* scores in each list
C10_Witness ==
    /\ APIPage /\ AllPlayed(call.resp.json) /\ Returned /\ earlier
    /\ Len(result.countered) = 2 /\ Len(result.counters) = 2
    /\ result.countered[1][2] # result.countered[2][2]
    /\ result.counters[1][2] # result.counters[2][2]
    /\ Moved(result.countered, call.resp.json)
    /\ Moved(result.counters, call.resp.json)

=============================================================================
